---- MODULE Spec2Model ----
(***************************************************************************)
(* Model of the spinnaker-operator admission webhook:                      *)
(*   - controllers/webhook/webhook.go: the registration list, Register,    *)
(*     Start, generateValidatePath and the two deploy functions;           *)
(*   - the account validating controller (package accountvalidating):      *)
(*     Handle.                                                             *)
(* Go strings are sequences of one-character strings, so that              *)
(* strings.Replace, strings.ToLower and concatenation are computed.        *)
(***************************************************************************)
EXTENDS Integers, Sequences, FiniteSets, TLC

(* ---------------------------------------------------------------------- *)
(* Bounds of the model                                                     *)
(* ---------------------------------------------------------------------- *)
\* longest group and version drawn for the path function
MaxLen == 3
\* longest kind drawn for the path function
MaxKindLen == 1
\* most registrations made before Start
MaxRegs == 2
\* number of admission requests handled concurrently
MaxReqs == 2
\* most runs of deployValidatingWebhookConfiguration
MaxDeploys == 3

(* ---------------------------------------------------------------------- *)
(* State                                                                   *)
(* ---------------------------------------------------------------------- *)
\* the path function applied to two identities
VARIABLES
    gvkA,           \* the first identity
    gvkB,           \* the second identity
    pathA,          \* generateValidatePath of the first ("" before the call)
    pathB,          \* generateValidatePath of the second
    pathAgain,      \* generateValidatePath of the first, called a second time
    pathCalls,      \* how far the calls have come
    resA,           \* the resource name registered with the first identity
    resB,           \* the resource name registered with the second identity
    nameA,          \* the Name of the webhook entry built for the first
    nameB,          \* the Name of the webhook entry built for the second
    nameCalls       \* how far the building of the entries has come

pvars == <<gvkA, gvkB, pathA, pathB, pathAgain, pathCalls,
           resA, resB, nameA, nameB, nameCalls>>

\* registration and startup (webhook.go)
VARIABLES
    registrations,  \* var registrations []registration
    operatorName,   \* what k8sutil.GetOperatorName finds ("" when it fails)
    platformNs,     \* what k8sutil.GetOperatorNamespace finds ("" when it fails)
    envNs,          \* os.Getenv("ADMISSION_PROXY_NAMESPACE")
    startPc,        \* position of Start
    startResult,    \* what Start returned: "" while running, "ok" for nil
    steps,          \* the steps Start has executed, in order
    ns,             \* Start's local ns
    name,           \* Start's local name
    certContext,    \* Start's local c
    regIdx,         \* index of the range loop of Start
    hookServer,     \* m.GetWebhookServer()
    liveService,    \* the Service object in the cluster
    liveConfig,     \* the ValidatingWebhookConfiguration object in the cluster
    deploys         \* the runs of deployValidatingWebhookConfiguration so far

svars == <<registrations, operatorName, platformNs, envNs, startPc, startResult,
           steps, ns, name, certContext, regIdx, hookServer, liveService,
           liveConfig, deploys>>

\* the account validating controller: Handle
VARIABLES
    handlePc,      \* position of each call of Handle
    req,           \* the admission.Request of each call
    resp,          \* the admission.Response each call returned
    ctx,           \* the local ctx of each call: 0, or the secrets context it holds
    deferred,      \* whether the call has deferred secrets.Cleanup(ctx)
    acquired,      \* per call, the calls of secrets.NewContext
    released,      \* per call, the calls of secrets.Cleanup
    decodeCalls,   \* per call, the calls of v.decoder.Decode
    validateCalls, \* per call, the calls of av.Validate
    liveContexts,  \* the secrets contexts that exist and are not cleaned up
    nextContext    \* the number of secrets contexts made so far

hvars == <<handlePc, req, resp, ctx, deferred, acquired, released, decodeCalls,
           validateCalls, liveContexts, nextContext>>

vars == <<pvars, svars, hvars>>

(* ---------------------------------------------------------------------- *)
(* Strings                                                                 *)
(* ---------------------------------------------------------------------- *)
\* all strings over the characters cs of length at most n
StringsUpTo(cs, n) == UNION {[1..k -> cs] : k \in 0..n}

\* strings.ToLower on one character (the upper-case letters the model uses)
LowerChar(c) ==
    CASE c = "A" -> "a"
      [] c = "K" -> "k"
      [] c = "P" -> "p"
      [] c = "S" -> "s"
      [] OTHER -> c

\* strings.ToLower
ToLower(s) == [i \in 1..Len(s) |-> LowerChar(s[i])]

\* strings.Replace(s, old, new, -1) for one-character old and new
ReplaceAll(s, old, new) == [i \in 1..Len(s) |-> IF s[i] = old THEN new ELSE s[i]]

\* TRUE iff the character c occurs in s
Contains(s, c) == \E i \in 1..Len(s) : s[i] = c

\* schema.GroupVersionKind
GVK(g, v, k) == [Group |-> g, Version |-> v, Kind |-> k]

\* the literal "/validate-"
ValidatePrefix == <<"/", "v", "a", "l", "i", "d", "a", "t", "e", "-">>

\* a path function that forgets to lower-case the kind
generateValidatePathKeepCase(gvk) ==
    ValidatePrefix \o ReplaceAll(gvk.Group, ".", "-") \o <<"-">> \o
        gvk.Version \o <<"-">> \o gvk.Kind

\* a path function that drops the group
generateValidatePathNoGroup(gvk) ==
    ValidatePrefix \o gvk.Version \o <<"-">> \o ToLower(gvk.Kind)

\* webhook.go: generateValidatePath
generateValidatePath(gvk) ==
    ValidatePrefix \o ReplaceAll(gvk.Group, ".", "-") \o <<"-">> \o
        gvk.Version \o <<"-">> \o ToLower(gvk.Kind)

(* ---------------------------------------------------------------------- *)
(* The path function applied to two identities                             *)
(* ---------------------------------------------------------------------- *)
\* characters the drawn groups, versions and kinds are made of
GroupChars == {"a", ".", "-"}
VersionChars == {"a", "-"}
KindChars == {"A", "a"}

\* a name in which every dot and dash stands between two other characters
\* (the form of an API group and of a version)
ValidName(s) ==
    \A i \in 1..Len(s) :
        s[i] \in {".", "-"} =>
            /\ i > 1 /\ i < Len(s)
            /\ s[i - 1] \notin {".", "-"}
            /\ s[i + 1] \notin {".", "-"}

\* the identities the path function is applied to: a group that may be empty
\* (the core group), a version and a kind
PathGVKs ==
    {GVK(g, v, k) : g \in {s \in StringsUpTo(GroupChars, MaxLen) : ValidName(s)},
                    v \in {s \in StringsUpTo(VersionChars, MaxLen) :
                              s # <<>> /\ ValidName(s)},
                    k \in StringsUpTo(KindChars, MaxKindLen) \ {<<>>}}

\* no path computed yet
PathIdle ==
    /\ pathA = <<>>
    /\ pathB = <<>>
    /\ pathAgain = <<>>
    /\ pathCalls = 0

\* no entry name built yet
NameIdle ==
    /\ nameA = <<>>
    /\ nameB = <<>>
    /\ nameCalls = 0

\* no resource names drawn, no entry name built
NameAbsent ==
    /\ resA = <<>>
    /\ resB = <<>>
    /\ NameIdle

PathInit ==
    /\ gvkA \in PathGVKs
    /\ gvkB \in PathGVKs
    /\ PathIdle
    /\ NameAbsent

\* generateValidatePath called on both identities
GeneratePaths ==
    /\ pathCalls = 0
    /\ pathA' = generateValidatePath(gvkA)
    /\ pathB' = generateValidatePath(gvkB)
    /\ pathCalls' = 1
    /\ UNCHANGED <<gvkA, gvkB, pathAgain, resA, resB, nameA, nameB, nameCalls,
                   svars, hvars>>

\* generateValidatePath called a second time on the first identity
GenerateAgain ==
    /\ pathCalls = 1
    /\ pathAgain' = generateValidatePath(gvkA)
    /\ pathCalls' = 2
    /\ UNCHANGED <<gvkA, gvkB, pathA, pathB, resA, resB, nameA, nameB, nameCalls,
                   svars, hvars>>

PathNext == GeneratePaths \/ GenerateAgain

(* ---------------------------------------------------------------------- *)
(* Registration and startup (webhook.go)                                   *)
(* ---------------------------------------------------------------------- *)
\* const servicePort
servicePort == 9876

\* no object (a nil pointer, an absent cluster object)
NoObject == [absent |-> TRUE]

\* string literals
StrPod == <<"P", "o", "d">>
StrV1 == <<"v", "1">>
StrPods == <<"p", "o", "d", "s">>
StrSpinnakerAccount ==
    <<"S", "p", "i", "n", "n", "a", "k", "e", "r", "A", "c", "c", "o", "u", "n", "t">>
StrSpinnakerAccounts ==
    <<"s", "p", "i", "n", "n", "a", "k", "e", "r", "a", "c", "c", "o", "u", "n", "t", "s">>
StrSpinnakerIo == <<"s", "p", "i", "n", "n", "a", "k", "e", "r", ".", "i", "o">>
StrSpinnakerDashIo == <<"s", "p", "i", "n", "n", "a", "k", "e", "r", "-", "i", "o">>
StrV1alpha2 == <<"v", "1", "a", "l", "p", "h", "a", "2">>
StrSpinnakerService ==
    <<"S", "p", "i", "n", "n", "a", "k", "e", "r", "S", "e", "r", "v", "i", "c", "e">>

\* the identity of the spec's scenario: the core Pod
PodGVK == GVK(<<>>, StrV1, StrPod)
\* the identity the account controller registers (Add)
AccountGVK == GVK(StrSpinnakerIo, StrV1alpha2, StrSpinnakerAccount)
\* a different group whose dots-to-dashes form is the same
DashedAccountGVK == GVK(StrSpinnakerDashIo, StrV1alpha2, StrSpinnakerAccount)

\* the other kind of the operator's group
ServiceGVK == GVK(StrSpinnakerIo, StrV1alpha2, StrSpinnakerService)

\* the identities, resource names and handlers Register is called with
RegisterKinds == {PodGVK, AccountGVK, DashedAccountGVK, ServiceGVK}
RegisterResources == {StrPods, StrSpinnakerAccounts}
RegisterHandlers == {"accountValidatingController"}

\* a Register that keeps one registration per identity: it replaces the
\* registration of an identity registered before
RegisterReplaceSame(kind, resources, h) ==
    /\ startPc = "idle"
    /\ Len(registrations) < MaxRegs
    /\ LET new == [kind |-> kind, h |-> h, p |-> generateValidatePath(kind),
                   r |-> resources]
       IN IF \E k \in 1..Len(registrations) : registrations[k].kind = kind
             THEN registrations' =
                      [k \in 1..Len(registrations) |->
                          IF registrations[k].kind = kind THEN new
                          ELSE registrations[k]]
             ELSE registrations' = Append(registrations, new)
    /\ UNCHANGED <<pvars, hvars, deploys, operatorName, platformNs, envNs, startPc, startResult, steps,
                   ns, name, certContext, regIdx, hookServer, liveService,
                   liveConfig>>

\* func Register. The callers (Add) run before Start, in the same goroutine.
Register(kind, resources, h) ==
    /\ startPc = "idle"
    /\ Len(registrations) < MaxRegs
    /\ registrations' = Append(registrations,
           [kind |-> kind, h |-> h, p |-> generateValidatePath(kind), r |-> resources])
    /\ UNCHANGED <<pvars, hvars, deploys, operatorName, platformNs, envNs, startPc, startResult, steps,
                   ns, name, certContext, regIdx, hookServer, liveService,
                   liveConfig>>

\* Start returns err (or nil, written "ok") after the step named step
StartReturn(step, err) ==
    /\ startPc' = "done"
    /\ startResult' = err
    /\ steps' = Append(steps, step)

\* Start goes on to the position next after the step named step
StartGoto(step, next) ==
    /\ startPc' = next
    /\ steps' = Append(steps, step)
    /\ UNCHANGED startResult

\* a Start that does not check the registration list
StartNoCheck ==
    /\ startPc = "idle"
    /\ StartGoto("check", "identity")
    /\ UNCHANGED <<pvars, hvars, deploys, registrations, operatorName, platformNs, envNs, ns, name,
                   certContext, regIdx, hookServer, liveService, liveConfig>>

\* Start, lines 45-47: the check of the registration list
StartCheckRegistrations ==
    /\ startPc = "idle"
    /\ IF Len(registrations) = 0
          THEN StartReturn("check", "no kind registered for validation")
          ELSE StartGoto("check", "identity")
    /\ UNCHANGED <<pvars, hvars, deploys, registrations, operatorName, platformNs, envNs, ns, name,
                   certContext, regIdx, hookServer, liveService, liveConfig>>

\* an identity resolution that asks the environment variable first
getOperatorNameAndNamespaceEnvFirst ==
    IF operatorName = ""
        THEN [ns |-> "", name |-> "", err |-> "operator name not found"]
        ELSE IF envNs # ""
            THEN [ns |-> envNs, name |-> operatorName, err |-> ""]
            ELSE IF platformNs = ""
                THEN [ns |-> "", name |-> "",
                      err |-> "unable to determine operator namespace"]
                ELSE [ns |-> platformNs, name |-> operatorName, err |-> ""]

\* func getOperatorNameAndNamespace
getOperatorNameAndNamespace ==
    IF operatorName = ""
        THEN [ns |-> "", name |-> "", err |-> "operator name not found"]
        ELSE IF platformNs # ""
            THEN [ns |-> platformNs, name |-> operatorName, err |-> ""]
            ELSE IF envNs = ""
                THEN [ns |-> "", name |-> "",
                      err |-> "unable to determine operator namespace"]
                ELSE [ns |-> envNs, name |-> operatorName, err |-> ""]

\* Start, lines 49-52
StartIdentity ==
    /\ startPc = "identity"
    /\ LET res == getOperatorNameAndNamespace IN
          IF res.err # ""
              THEN /\ StartReturn("identity", res.err)
                   /\ UNCHANGED <<ns, name>>
              ELSE /\ StartGoto("identity", "service")
                   /\ ns' = res.ns
                   /\ name' = res.name
    /\ UNCHANGED <<pvars, hvars, deploys, registrations, operatorName, platformNs, envNs, certContext,
                   regIdx, hookServer, liveService, liveConfig>>

\* util.CreateOrUpdateService and util.CreateOrUpdateValidatingWebhookConfiguration
\* when they succeed: the object is created when absent and updated in place
\* otherwise, so that the cluster holds the desired object
CreateOrUpdate(live, desired) == desired

\* the Service object deployWebhookService builds
webhookService(nsArg, nameArg, port) ==
    [Namespace |-> nsArg,
     Name |-> nameArg,
     Labels |-> [name |-> nameArg],
     Selector |-> [name |-> nameArg],
     Ports |-> <<[Name |-> "http", Protocol |-> "TCP", Port |-> 443,
                  TargetPort |-> port]>>]

\* a Start that goes on when deployWebhookService fails
StartServiceIgnoreError ==
    /\ startPc = "service"
    /\ \E ok \in BOOLEAN :
          /\ liveService' = IF ok THEN CreateOrUpdate(liveService,
                                           webhookService(ns, name, servicePort))
                                  ELSE liveService
          /\ StartGoto("service", "cert")
    /\ UNCHANGED <<pvars, hvars, deploys, registrations, operatorName, platformNs, envNs, ns, name,
                   certContext, regIdx, hookServer, liveConfig>>

\* Start, lines 55-59, with deployWebhookService; util.CreateOrUpdateService
\* succeeds, or fails and leaves the object alone
StartService ==
    /\ startPc = "service"
    /\ \E ok \in BOOLEAN :
          IF ok
              THEN /\ liveService' = CreateOrUpdate(liveService,
                                                  webhookService(ns, name, servicePort))
                   /\ StartGoto("service", "cert")
              ELSE /\ StartReturn("service", "service: create or update failed")
                   /\ UNCHANGED liveService
    /\ UNCHANGED <<pvars, hvars, deploys, registrations, operatorName, platformNs, envNs, ns, name,
                   certContext, regIdx, hookServer, liveConfig>>

\* the signing certificates getCertContext may return
SigningCerts == {"ca-1", "ca-2"}

\* Start, lines 62-65: getCertContext returns a certContext or fails
StartCert ==
    /\ startPc = "cert"
    /\ \/ \E cert \in SigningCerts :
             /\ certContext' = [certDir |-> "certdir", signingCert |-> cert]
             /\ StartGoto("cert", "server")
       \/ /\ StartReturn("cert", "certificates: failed")
          /\ UNCHANGED certContext
    /\ UNCHANGED <<pvars, hvars, deploys, registrations, operatorName, platformNs, envNs, ns, name,
                   regIdx, hookServer, liveService, liveConfig>>

\* Start, lines 67-69
StartServer ==
    /\ startPc = "server"
    /\ hookServer' = [hookServer EXCEPT !.CertDir = certContext.certDir,
                                        !.Port = servicePort]
    /\ regIdx' = 1
    /\ StartGoto("server", "register")
    /\ UNCHANGED <<pvars, hvars, deploys, registrations, operatorName, platformNs, envNs, ns, name,
                   certContext, liveService, liveConfig>>

\* the paths registered on the webhook server
ServedPaths == {w.path : w \in hookServer.webhooks}

\* a loop step that registers every handler under the first registration's path
StartRegisterPathFirstOnly ==
    /\ startPc = "register"
    /\ IF regIdx > Len(registrations)
          THEN /\ startPc' = "config"
               /\ UNCHANGED <<startResult, steps, hookServer, regIdx>>
          ELSE /\ hookServer' = [hookServer EXCEPT !.webhooks =
                                    @ \cup {[path |-> registrations[1].p,
                                             handler |-> registrations[regIdx].h]}]
               /\ regIdx' = regIdx + 1
               /\ StartGoto("register", "register")
    /\ UNCHANGED <<pvars, hvars, deploys, registrations, operatorName, platformNs, envNs, ns,
                   name, certContext, liveService, liveConfig>>

\* Start, lines 71-73: the loop over the registrations, one iteration a step.
\* The webhook server's Register panics on a path it already holds.
StartRegisterPath ==
    /\ startPc = "register"
    /\ IF regIdx > Len(registrations)
          THEN /\ startPc' = "config"
               /\ UNCHANGED <<startResult, steps, hookServer, regIdx>>
          ELSE LET r == registrations[regIdx] IN
               IF r.p \in ServedPaths
                   THEN /\ StartReturn("register", "panic: can't register duplicate path")
                        /\ UNCHANGED <<hookServer, regIdx>>
                   ELSE /\ hookServer' = [hookServer EXCEPT !.webhooks =
                                             @ \cup {[path |-> r.p, handler |-> r.h]}]
                        /\ regIdx' = regIdx + 1
                        /\ StartGoto("register", "register")
    /\ UNCHANGED <<pvars, hvars, deploys, registrations, operatorName, platformNs, envNs, ns,
                   name, certContext, liveService, liveConfig>>

\* the literals of the entry name: "webhook-%s-%s.%s"
StrWebhookDash == <<"w", "e", "b", "h", "o", "o", "k", "-">>

\* an entry that also filters the delete operation
validatingWebhookWithDelete(r, svcName, nsArg, cert) ==
    [Name |-> StrWebhookDash \o r.r \o <<"-">> \o r.kind.Version \o <<".">> \o
                  ToLower(r.kind.Group),
     ClientConfig |-> [Service |-> [Namespace |-> nsArg, Name |-> svcName,
                                    Path |-> r.p],
                       CABundle |-> cert],
     Rules |-> <<[Operations |-> <<"CREATE", "UPDATE", "DELETE">>,
                  Rule |-> [APIGroups |-> <<r.kind.Group>>,
                            APIVersions |-> <<r.kind.Version>>,
                            Resources |-> <<r.r>>]]>>,
     SideEffects |-> "None",
     AdmissionReviewVersions |-> <<"v1beta1", "v1">>]

\* an entry whose Name leaves out the version
validatingWebhookNameNoVersion(r, svcName, nsArg, cert) ==
    [Name |-> StrWebhookDash \o r.r \o <<".">> \o ToLower(r.kind.Group),
     ClientConfig |-> [Service |-> [Namespace |-> nsArg, Name |-> svcName,
                                    Path |-> r.p],
                       CABundle |-> cert],
     Rules |-> <<[Operations |-> <<"CREATE", "UPDATE">>,
                  Rule |-> [APIGroups |-> <<r.kind.Group>>,
                            APIVersions |-> <<r.kind.Version>>,
                            Resources |-> <<r.r>>]]>>,
     SideEffects |-> "None",
     AdmissionReviewVersions |-> <<"v1beta1", "v1">>]

\* one entry of webhookConfig.Webhooks, lines 133-159
validatingWebhook(r, svcName, nsArg, cert) ==
    [Name |-> StrWebhookDash \o r.r \o <<"-">> \o r.kind.Version \o <<".">> \o
                  ToLower(r.kind.Group),
     ClientConfig |-> [Service |-> [Namespace |-> nsArg, Name |-> svcName,
                                    Path |-> r.p],
                       CABundle |-> cert],
     Rules |-> <<[Operations |-> <<"CREATE", "UPDATE">>,
                  Rule |-> [APIGroups |-> <<r.kind.Group>>,
                            APIVersions |-> <<r.kind.Version>>,
                            Resources |-> <<r.r>>]]>>,
     SideEffects |-> "None",
     AdmissionReviewVersions |-> <<"v1beta1", "v1">>]

\* the object deployValidatingWebhookConfiguration builds from the list regs,
\* lines 123-160
webhookConfigOf(regs, svcName, nsArg, cert) ==
    [Name |-> "spinnakervalidatingwebhook",
     Namespace |-> nsArg,
     Webhooks |-> [i \in 1..Len(regs) |-> validatingWebhook(regs[i], svcName, nsArg, cert)]]

\* a builder whose entries all point at one shared path variable, which ends
\* holding the path of the last registration
webhookConfigSharedPath(svcName, nsArg, cert) ==
    LET fresh == webhookConfigOf(registrations, svcName, nsArg, cert)
        last == registrations[Len(registrations)].p
    IN [fresh EXCEPT !.Webhooks =
           [i \in 1..Len(fresh.Webhooks) |->
               [fresh.Webhooks[i] EXCEPT !.ClientConfig.Service.Path = last]]]

\* a builder that keeps adding to the entries the cluster's object already has
webhookConfigAccumulating(svcName, nsArg, cert) ==
    LET fresh == webhookConfigOf(registrations, svcName, nsArg, cert) IN
    IF liveConfig = NoObject
        THEN fresh
        ELSE [fresh EXCEPT !.Webhooks = liveConfig.Webhooks \o @]

\* a builder that takes the service name for the namespace and the namespace
\* for the service name
webhookConfigSwapped(svcName, nsArg, cert) ==
    webhookConfigOf(registrations, nsArg, svcName, cert)

\* the object built from the registration list
webhookConfig(svcName, nsArg, cert) ==
    webhookConfigOf(registrations, svcName, nsArg, cert)

\* characters the drawn resource names and the groups of the entry names
\* are made of
ResourceChars == {"a", "-"}
NameGroups == {<<>>, <<"a">>, <<"A">>}
NameKinds == {<<"A">>, <<"a">>}

\* the identities and resource names the entries are built for
NameGVKs ==
    {GVK(g, v, k) : g \in NameGroups,
                    v \in {s \in StringsUpTo(VersionChars, MaxLen) :
                              s # <<>> /\ ValidName(s)},
                    k \in NameKinds}

NameResources ==
    {s \in StringsUpTo(ResourceChars, MaxLen) : s # <<>> /\ ValidName(s)}

NameInit ==
    /\ gvkA \in NameGVKs
    /\ gvkB \in NameGVKs
    /\ resA \in NameResources
    /\ resB \in NameResources
    /\ PathIdle
    /\ NameIdle

\* the registration Register stores for an identity and a resource name
registrationOf(kind, resources) ==
    [kind |-> kind, h |-> "accountValidatingController",
     p |-> generateValidatePath(kind), r |-> resources]

\* the entries deployValidatingWebhookConfiguration builds for the two
\* registrations: their Names
BuildNames ==
    /\ nameCalls = 0
    /\ nameA' = validatingWebhook(registrationOf(gvkA, resA),
                                  "spinnaker-operator", "ns-platform", "ca-1").Name
    /\ nameB' = validatingWebhook(registrationOf(gvkB, resB),
                                  "spinnaker-operator", "ns-platform", "ca-1").Name
    /\ nameCalls' = 1
    /\ UNCHANGED <<gvkA, gvkB, pathA, pathB, pathAgain, pathCalls, resA, resB,
                   svars, hvars>>

\* the entries built a second time, by a later run with another certificate
BuildNamesAgain ==
    /\ nameCalls = 1
    /\ nameA' = validatingWebhook(registrationOf(gvkA, resA),
                                  "spinnaker-operator", "ns-platform", "ca-2").Name
    /\ nameB' = validatingWebhook(registrationOf(gvkB, resB),
                                  "spinnaker-operator", "ns-platform", "ca-2").Name
    /\ nameCalls' = 2
    /\ UNCHANGED <<gvkA, gvkB, pathA, pathB, pathAgain, pathCalls, resA, resB,
                   svars, hvars>>

NameNext == BuildNames \/ BuildNamesAgain

\* the paths the entries of a webhook configuration refer to
ConfigPaths(config) ==
    {config.Webhooks[i].ClientConfig.Service.Path : i \in 1..Len(config.Webhooks)}

\* one run of deployValidatingWebhookConfiguration(svcName, nsArg, rawClient,
\* cert), lines 122-162: the object is built and handed to
\* util.CreateOrUpdateValidatingWebhookConfiguration, which succeeds (ok), or
\* fails and leaves the cluster's object alone. The run is recorded in deploys.
deployValidatingWebhookConfiguration(svcName, nsArg, cert, ok) ==
    LET desired == webhookConfig(svcName, nsArg, cert)
        live == IF ok THEN CreateOrUpdate(liveConfig, desired) ELSE liveConfig
    IN /\ liveConfig' = live
       /\ deploys' = Append(deploys,
              [svcName |-> svcName, ns |-> nsArg, cert |-> cert,
               desired |-> desired, ok |-> ok, live |-> live])

\* Start, line 75
StartConfig ==
    /\ startPc = "config"
    /\ \E ok \in BOOLEAN :
          /\ deployValidatingWebhookConfiguration(name, ns, certContext.signingCert, ok)
          /\ StartReturn("config",
                 IF ok THEN "ok"
                       ELSE "webhook configuration: create or update failed")
    /\ UNCHANGED <<pvars, hvars, registrations, operatorName, platformNs, envNs, ns, name,
                   certContext, regIdx, hookServer, liveService>>

\* deployValidatingWebhookConfiguration runs again after a successful Start,
\* for the same service and namespace and with the registrations unchanged
\* (a later start of the operator reaching line 75 again), with the
\* certificate the certificate provider returns then
Redeploy ==
    /\ startPc = "done"
    /\ startResult = "ok"
    /\ Len(deploys) < MaxDeploys
    /\ \E cert \in SigningCerts, ok \in BOOLEAN :
          deployValidatingWebhookConfiguration(name, ns, cert, ok)
    /\ UNCHANGED <<pvars, hvars, registrations, operatorName, platformNs, envNs,
                   startPc, startResult, steps, ns, name, certContext, regIdx,
                   hookServer, liveService>>

\* the configuration a previous run of the operator left in the cluster
PreviousConfig ==
    webhookConfigOf(<<[kind |-> PodGVK, h |-> "accountValidatingController",
                       p |-> generateValidatePath(PodGVK), r |-> StrPods]>>,
                    "spinnaker-operator", "ns-platform", "ca-0")

\* Start not called yet, nothing registered
StartIdle ==
    /\ registrations = <<>>
    /\ startPc = "idle"
    /\ startResult = ""
    /\ steps = <<>>
    /\ ns = ""
    /\ name = ""
    /\ certContext = NoObject
    /\ regIdx = 0
    /\ hookServer = [CertDir |-> "", Port |-> 0, webhooks |-> {}]
    /\ liveService = NoObject
    /\ deploys = <<>>

StartInit ==
    /\ StartIdle
    /\ operatorName \in {"", "spinnaker-operator"}
    /\ platformNs \in {"", "ns-platform"}
    /\ envNs \in {"", "ns-env"}
    /\ liveConfig \in {NoObject, PreviousConfig}

\* the environment of a run in which nothing of the startup part happens
StartAbsent ==
    /\ StartIdle
    /\ operatorName = ""
    /\ platformNs = ""
    /\ envNs = ""
    /\ liveConfig = NoObject

StartNext ==
    \/ \E kind \in RegisterKinds, resources \in RegisterResources,
          h \in RegisterHandlers : Register(kind, resources, h)
    \/ StartCheckRegistrations
    \/ StartIdentity
    \/ StartService
    \/ StartCert
    \/ StartServer
    \/ StartRegisterPath
    \/ StartConfig
    \/ Redeploy

(* ---------------------------------------------------------------------- *)
(* The account validating controller: Handle                               *)
(* ---------------------------------------------------------------------- *)
\* the concurrent calls of Handle
Reqs == 1..MaxReqs

\* TypesFactory.GetGroupVersion()
TypesFactoryGroupVersion == [Group |-> StrSpinnakerIo, Version |-> StrV1alpha2]

\* the payloads of the requests, each with what the collaborators answer on it:
\* the error of decoder.Decode, accounts.GetType, accType.FromCRD and
\* av.Validate ("" for nil)
PayloadOf(decodeErr, typeErr, crdErr, validateErr) ==
    [decodeErr |-> decodeErr, typeErr |-> typeErr, crdErr |-> crdErr,
     validateErr |-> validateErr]

Payloads ==
    {PayloadOf("", "", "", ""),
     PayloadOf("couldn't get version/kind; json parse error", "", "", ""),
     PayloadOf("", "no account type found", "", ""),
     PayloadOf("", "", "unable to convert account", ""),
     PayloadOf("", "", "", "account validation failed"),
     PayloadOf("", "", "", "unable to resolve secret")}

\* the identities of the requests: the owned one, and one that differs from it
\* in the group, one in the version, one in the kind
RequestKinds ==
    {AccountGVK,
     DashedAccountGVK,
     GVK(StrSpinnakerIo, StrV1, StrSpinnakerAccount),
     GVK(StrSpinnakerIo, StrV1alpha2, StrPod)}

\* http.StatusBadRequest, http.StatusUnprocessableEntity
StatusBadRequest == 400
StatusUnprocessableEntity == 422

\* admission.Errored
Errored(code, err) == [Allowed |-> FALSE, Code |-> code, Message |-> err]

\* admission.ValidationResponse
ValidationResponse(allowed, reason) ==
    [Allowed |-> allowed,
     Code |-> IF allowed THEN 200 ELSE 403,
     Message |-> reason]

\* what a call leaves alone besides its position and response
HandleLocals == <<ctx, deferred, acquired, released, decodeCalls, validateCalls,
                  liveContexts, nextContext>>

\* Handle returns: the response is set; a deferred Cleanup runs before the
\* call is over
HandleReturn(i, response) ==
    /\ resp' = [resp EXCEPT ![i] = response]
    /\ handlePc' = [handlePc EXCEPT ![i] = IF deferred[i] THEN "cleanup" ELSE "done"]

\* a request arrives and Handle is called on it, lines 50-53
HandleReceive(i) ==
    /\ handlePc[i] = "idle"
    /\ \E kind \in RequestKinds, payload \in Payloads :
          req' = [req EXCEPT ![i] = [Kind |-> kind, payload |-> payload]]
    /\ handlePc' = [handlePc EXCEPT ![i] = "match"]
    /\ UNCHANGED <<pvars, svars, resp, HandleLocals>>

\* a match that looks at the kind name only
HandleMatchKindOnly(i) ==
    /\ handlePc[i] = "match"
    /\ IF StrSpinnakerAccount = req[i].Kind.Kind
          THEN /\ handlePc' = [handlePc EXCEPT ![i] = "decode"]
               /\ UNCHANGED resp
          ELSE HandleReturn(i, ValidationResponse(TRUE, ""))
    /\ UNCHANGED <<pvars, svars, req, HandleLocals>>

\* Handle, lines 55-57 and, when the request is not the handler's, line 81
HandleMatch(i) ==
    /\ handlePc[i] = "match"
    /\ LET gv == TypesFactoryGroupVersion IN
          IF /\ StrSpinnakerAccount = req[i].Kind.Kind
             /\ gv.Group = req[i].Kind.Group
             /\ gv.Version = req[i].Kind.Version
              THEN /\ handlePc' = [handlePc EXCEPT ![i] = "decode"]
                   /\ UNCHANGED resp
              ELSE HandleReturn(i, ValidationResponse(TRUE, ""))
    /\ UNCHANGED <<pvars, svars, req, HandleLocals>>

\* a decode step that answers a decode error with 422
HandleDecodeUnprocessable(i) ==
    /\ handlePc[i] = "decode"
    /\ decodeCalls' = [decodeCalls EXCEPT ![i] = @ + 1]
    /\ IF req[i].payload.decodeErr # ""
          THEN HandleReturn(i, Errored(StatusUnprocessableEntity, req[i].payload.decodeErr))
          ELSE /\ handlePc' = [handlePc EXCEPT ![i] = "gettype"]
               /\ UNCHANGED resp
    /\ UNCHANGED <<pvars, svars, req, ctx, deferred, acquired, released, validateCalls,
                   liveContexts, nextContext>>

\* Handle, lines 59-61
HandleDecode(i) ==
    /\ handlePc[i] = "decode"
    /\ decodeCalls' = [decodeCalls EXCEPT ![i] = @ + 1]
    /\ IF req[i].payload.decodeErr # ""
          THEN HandleReturn(i, Errored(StatusBadRequest, req[i].payload.decodeErr))
          ELSE /\ handlePc' = [handlePc EXCEPT ![i] = "gettype"]
               /\ UNCHANGED resp
    /\ UNCHANGED <<pvars, svars, req, ctx, deferred, acquired, released, validateCalls,
                   liveContexts, nextContext>>

\* a type lookup that answers an unknown type with 422
HandleGetTypeUnprocessable(i) ==
    /\ handlePc[i] = "gettype"
    /\ IF req[i].payload.typeErr # ""
          THEN HandleReturn(i, Errored(StatusUnprocessableEntity, req[i].payload.typeErr))
          ELSE /\ handlePc' = [handlePc EXCEPT ![i] = "fromcrd"]
               /\ UNCHANGED resp
    /\ UNCHANGED <<pvars, svars, req, HandleLocals>>

\* Handle, lines 63-66
HandleGetType(i) ==
    /\ handlePc[i] = "gettype"
    /\ IF req[i].payload.typeErr # ""
          THEN HandleReturn(i, Errored(StatusBadRequest, req[i].payload.typeErr))
          ELSE /\ handlePc' = [handlePc EXCEPT ![i] = "fromcrd"]
               /\ UNCHANGED resp
    /\ UNCHANGED <<pvars, svars, req, HandleLocals>>

\* a conversion step that drops the error of FromCRD
HandleFromCRDIgnoreError(i) ==
    /\ handlePc[i] = "fromcrd"
    /\ handlePc' = [handlePc EXCEPT ![i] = "newcontext"]
    /\ UNCHANGED <<pvars, svars, req, resp, HandleLocals>>

\* Handle, lines 68-71
HandleFromCRD(i) ==
    /\ handlePc[i] = "fromcrd"
    /\ IF req[i].payload.crdErr # ""
          THEN HandleReturn(i, Errored(StatusBadRequest, req[i].payload.crdErr))
          ELSE /\ handlePc' = [handlePc EXCEPT ![i] = "newcontext"]
               /\ UNCHANGED resp
    /\ UNCHANGED <<pvars, svars, req, HandleLocals>>

\* a context step that forgets to defer the cleanup
HandleNewContextNoDefer(i) ==
    /\ handlePc[i] = "newcontext"
    /\ nextContext' = nextContext + 1
    /\ ctx' = [ctx EXCEPT ![i] = nextContext + 1]
    /\ liveContexts' = liveContexts \cup {nextContext + 1}
    /\ acquired' = [acquired EXCEPT ![i] = @ + 1]
    /\ handlePc' = [handlePc EXCEPT ![i] = "validate"]
    /\ UNCHANGED <<pvars, svars, req, resp, deferred, released, decodeCalls, validateCalls>>

\* Handle, lines 73-75: secrets.NewContext makes a new context, and its
\* cleanup is deferred
HandleNewContext(i) ==
    /\ handlePc[i] = "newcontext"
    /\ nextContext' = nextContext + 1
    /\ ctx' = [ctx EXCEPT ![i] = nextContext + 1]
    /\ liveContexts' = liveContexts \cup {nextContext + 1}
    /\ acquired' = [acquired EXCEPT ![i] = @ + 1]
    /\ deferred' = [deferred EXCEPT ![i] = TRUE]
    /\ handlePc' = [handlePc EXCEPT ![i] = "validate"]
    /\ UNCHANGED <<pvars, svars, req, resp, released, decodeCalls, validateCalls>>

\* a validation step that answers a validation error with 400
HandleValidateBadRequest(i) ==
    /\ handlePc[i] = "validate"
    /\ validateCalls' = [validateCalls EXCEPT ![i] = @ + 1]
    /\ IF req[i].payload.validateErr # ""
          THEN HandleReturn(i, Errored(StatusBadRequest, req[i].payload.validateErr))
          ELSE HandleReturn(i, ValidationResponse(TRUE, ""))
    /\ UNCHANGED <<pvars, svars, req, ctx, deferred, acquired, released, decodeCalls,
                   liveContexts, nextContext>>

\* Handle, lines 77-81
HandleValidate(i) ==
    /\ handlePc[i] = "validate"
    /\ validateCalls' = [validateCalls EXCEPT ![i] = @ + 1]
    /\ IF req[i].payload.validateErr # ""
          THEN HandleReturn(i, Errored(StatusUnprocessableEntity, req[i].payload.validateErr))
          ELSE HandleReturn(i, ValidationResponse(TRUE, ""))
    /\ UNCHANGED <<pvars, svars, req, ctx, deferred, acquired, released, decodeCalls,
                   liveContexts, nextContext>>

\* a cleanup that releases every secrets context there is
HandleCleanupAll(i) ==
    /\ handlePc[i] = "cleanup"
    /\ liveContexts' = {}
    /\ released' = [released EXCEPT ![i] = @ + 1]
    /\ handlePc' = [handlePc EXCEPT ![i] = "done"]
    /\ UNCHANGED <<pvars, svars, req, resp, ctx, deferred, acquired, decodeCalls, validateCalls,
                   nextContext>>

\* the deferred secrets.Cleanup(ctx) of line 75, run as Handle returns
HandleCleanup(i) ==
    /\ handlePc[i] = "cleanup"
    /\ liveContexts' = liveContexts \ {ctx[i]}
    /\ released' = [released EXCEPT ![i] = @ + 1]
    /\ handlePc' = [handlePc EXCEPT ![i] = "done"]
    /\ UNCHANGED <<pvars, svars, req, resp, ctx, deferred, acquired, decodeCalls, validateCalls,
                   nextContext>>

\* no request received yet
HandleIdle ==
    /\ handlePc = [i \in Reqs |-> "idle"]
    /\ req = [i \in Reqs |-> NoObject]
    /\ resp = [i \in Reqs |-> NoObject]
    /\ ctx = [i \in Reqs |-> 0]
    /\ deferred = [i \in Reqs |-> FALSE]
    /\ acquired = [i \in Reqs |-> 0]
    /\ released = [i \in Reqs |-> 0]
    /\ decodeCalls = [i \in Reqs |-> 0]
    /\ validateCalls = [i \in Reqs |-> 0]
    /\ liveContexts = {}
    /\ nextContext = 0

HandleNext ==
    \E i \in Reqs :
        \/ HandleReceive(i)
        \/ HandleMatch(i)
        \/ HandleDecode(i)
        \/ HandleGetType(i)
        \/ HandleFromCRD(i)
        \/ HandleNewContext(i)
        \/ HandleValidate(i)
        \/ HandleCleanup(i)

(* ---------------------------------------------------------------------- *)
(* Specifications                                                          *)
(* ---------------------------------------------------------------------- *)
\* the path function alone
PathAbsent ==
    /\ gvkA = GVK(<<>>, <<>>, <<>>)
    /\ gvkB = GVK(<<>>, <<>>, <<>>)
    /\ PathIdle
    /\ NameAbsent

\* generateValidatePath on pairs of identities
InitPath == PathInit /\ StartAbsent /\ HandleIdle
SpecPath == InitPath /\ [][PathNext]_vars

\* the names of the webhook entries on pairs of registrations
InitName == NameInit /\ StartAbsent /\ HandleIdle
SpecName == InitName /\ [][NameNext]_vars

\* Register and Start
Init == PathAbsent /\ StartInit /\ HandleIdle
Next == StartNext
Spec == Init /\ [][Next]_vars

\* concurrent calls of Handle
InitHandle == PathAbsent /\ StartAbsent /\ HandleIdle
SpecHandle == InitHandle /\ [][HandleNext]_vars

(* ---------------------------------------------------------------------- *)
(* Properties of Handle (checked under SpecHandle)                         *)
(* ---------------------------------------------------------------------- *)
\* the identity the handler owns: kind "SpinnakerAccount" with the factory's
\* group and version
OwnedIdentity(kind) ==
    kind = GVK(TypesFactoryGroupVersion.Group, TypesFactoryGroupVersion.Version,
               StrSpinnakerAccount)

\* call i has set its response
Returned(i) == handlePc[i] \in {"cleanup", "done"}

\* the response of a plain allow
AllowResponse == [Allowed |-> TRUE, Code |-> 200, Message |-> ""]

\* C1: a request whose (group, version, kind) is not the owned identity is
\* answered allowed=true with no error whatever its payload, and on that path
\* the payload is never decoded, the validator never invoked and no secrets
\* context acquired.
C1_UnmatchedAllowed ==
    \A i \in Reqs :
        (handlePc[i] # "idle" /\ ~OwnedIdentity(req[i].Kind)) =>
            /\ handlePc[i] \in {"match", "done"}
            /\ handlePc[i] = "done" => resp[i] = AllowResponse
            /\ decodeCalls[i] = 0
            /\ validateCalls[i] = 0
            /\ acquired[i] = 0
            /\ ctx[i] = 0

\* an unmatched request with an undecodable payload has been answered
C1_Witness ==
    \E i \in Reqs :
        /\ handlePc[i] = "done"
        /\ ~OwnedIdentity(req[i].Kind)
        /\ req[i].Kind.Kind = StrSpinnakerAccount
        /\ req[i].payload.decodeErr # ""

\* C2: a request of the owned identity whose payload cannot be decoded is
\* answered allowed=false with status 400 and the decode error as message, and
\* the validator is not invoked.
C2_DecodeFailure ==
    \A i \in Reqs :
        (/\ handlePc[i] \notin {"idle", "match", "decode"}
         /\ OwnedIdentity(req[i].Kind)
         /\ req[i].payload.decodeErr # "") =>
            /\ handlePc[i] = "done"
            /\ resp[i] = [Allowed |-> FALSE, Code |-> 400,
                          Message |-> req[i].payload.decodeErr]
            /\ decodeCalls[i] = 1
            /\ validateCalls[i] = 0

\* a matched request with an undecodable payload has been answered
C2_Witness ==
    \E i \in Reqs :
        /\ handlePc[i] = "done"
        /\ OwnedIdentity(req[i].Kind)
        /\ req[i].payload.decodeErr # ""

\* C3: when the validator is invoked and returns an error the answer is
\* allowed=false with status 422 and the validation error as message; when it
\* returns no error the answer is allowed=true with an empty message.
C3_ValidationOutcome ==
    \A i \in Reqs :
        (Returned(i) /\ validateCalls[i] > 0) =>
            /\ OwnedIdentity(req[i].Kind)
            /\ req[i].payload.decodeErr = ""
            /\ IF req[i].payload.validateErr # ""
                  THEN resp[i] = [Allowed |-> FALSE, Code |-> 422,
                                  Message |-> req[i].payload.validateErr]
                  ELSE resp[i].Allowed /\ resp[i].Message = ""

\* one request was denied by its validator and another passed it
C3_Witness ==
    \E i, j \in Reqs :
        /\ handlePc[i] = "done" /\ validateCalls[i] = 1
        /\ req[i].payload.validateErr = "account validation failed"
        /\ handlePc[j] = "done" /\ validateCalls[j] = 1
        /\ req[j].payload.validateErr = ""

\* a request of the owned identity that decodes
MatchedDecoded(i) ==
    /\ Returned(i)
    /\ OwnedIdentity(req[i].Kind)
    /\ req[i].payload.decodeErr = ""

C5_AllowOnlyAfterAllSteps ==
    \A i \in Reqs :
        (Returned(i) /\ OwnedIdentity(req[i].Kind) /\ resp[i].Allowed) =>
            /\ req[i].payload = PayloadOf("", "", "", "")
            /\ decodeCalls[i] = 1
            /\ validateCalls[i] = 1

\* one matched request was allowed, and one whose secret could not be resolved
\* was answered
C5_Witness ==
    \E i, j \in Reqs :
        /\ handlePc[i] = "done" /\ OwnedIdentity(req[i].Kind) /\ resp[i].Allowed
        /\ handlePc[j] = "done" /\ OwnedIdentity(req[j].Kind)
        /\ req[j].payload.validateErr = "unable to resolve secret"

\* C6: on every exit path the contexts released equal the contexts acquired
\* and are at most one; the context is acquired only right before the
\* validator call and released exactly once when Handle returns: never leaked,
\* never released without having been acquired.
C6_ContextDiscipline ==
    \A i \in Reqs :
        /\ released[i] <= acquired[i]
        /\ acquired[i] <= 1
        /\ acquired[i] = 1 <=> (handlePc[i] = "validate" \/ validateCalls[i] = 1)
        /\ released[i] = 1 => handlePc[i] = "done"
        /\ handlePc[i] = "done" =>
              /\ released[i] = acquired[i]
              /\ ctx[i] \notin liveContexts
        /\ (handlePc[i] \in {"validate", "cleanup"}) => ctx[i] \in liveContexts

\* a call whose validator failed has returned, its context released
C6_Witness ==
    \E i \in Reqs :
        /\ handlePc[i] = "done"
        /\ req[i].payload.validateErr # ""
        /\ acquired[i] = 1
        /\ released[i] = 1

(* ---------------------------------------------------------------------- *)
(* Properties of Register and Start (checked under Spec)                   *)
(* ---------------------------------------------------------------------- *)
\* the paths of the registrations
RegistrationPaths == {registrations[i].p : i \in 1..Len(registrations)}

\* C7: Start called with zero registrations returns an error and performs no
\* other step: no identity resolved, no service created or updated, no
\* certificate obtained, no path registered on the webhook server and no
\* webhook configuration created or updated.
C7_NoRegistrationsFails ==
    (startPc # "idle" /\ Len(registrations) = 0) =>
        /\ startPc = "done"
        /\ startResult = "no kind registered for validation"
        /\ steps = <<"check">>
        /\ ns = "" /\ name = ""
        /\ liveService = NoObject
        /\ certContext = NoObject
        /\ hookServer = [CertDir |-> "", Port |-> 0, webhooks |-> {}]
        /\ liveConfig \in {NoObject, PreviousConfig}

\* Start has returned on an empty registration list, in an environment in
\* which every later step could have run
C7_Witness ==
    /\ startPc = "done"
    /\ Len(registrations) = 0
    /\ operatorName # ""
    /\ platformNs # ""

\* the errors of the collaborators of Start: identity resolution, the cluster
\* API, the certificate provider and the webhook server
CollaboratorErrors ==
    {"operator name not found",
     "unable to determine operator namespace",
     "service: create or update failed",
     "certificates: failed",
     "panic: can't register duplicate path",
     "webhook configuration: create or update failed"}

\* C8: with at least one registration and every collaborator succeeding, Start
\* succeeds, and the paths registered on the webhook server are exactly the
\* paths of the registrations, which are exactly the paths the entries of the
\* deployed webhook configuration refer to.
C8_ServedPathsAgree ==
    (startPc = "done" /\ Len(registrations) >= 1) =>
        /\ startResult = "ok" \/ startResult \in CollaboratorErrors
        /\ startResult = "ok" =>
              /\ ServedPaths = RegistrationPaths
              /\ liveConfig # NoObject
              /\ Len(liveConfig.Webhooks) = Len(registrations)
              /\ ConfigPaths(liveConfig) = RegistrationPaths
              /\ ConfigPaths(liveConfig) = ServedPaths

\* Start has succeeded on two registrations with different paths, replacing
\* the configuration of a previous run
C8_Witness ==
    /\ startPc = "done"
    /\ startResult = "ok"
    /\ Len(registrations) = 2
    /\ Cardinality(RegistrationPaths) = 2
    /\ liveConfig # PreviousConfig

(* ---------------------------------------------------------------------- *)
(* Properties of generateValidatePath                                      *)
(* ---------------------------------------------------------------------- *)
\* C9 as claimed (checked under SpecPath): any two distinct identities yield
\* distinct paths.
C9_Injective ==
    (pathCalls >= 1 /\ gvkA # gvkB) => pathA # pathB

\* neither group, version nor kind holds a dash
DashFree(gvk) ==
    /\ ~Contains(gvk.Group, "-")
    /\ ~Contains(gvk.Version, "-")
    /\ ~Contains(gvk.Kind, "-")

\* the identities differ in the group, the version, or the kind compared
\* without regard to case
DifferBeyondCase(a, b) ==
    \/ a.Group # b.Group
    \/ a.Version # b.Version
    \/ ToLower(a.Kind) # ToLower(b.Kind)

\* C9 amended (checked under SpecPath): a second call on the same identity
\* yields the same path, and two identities whose group, version and kind hold
\* no dash and that differ in the group, the version or the kind compared
\* without regard to case yield distinct paths.
C9_InjectiveOnDashFree ==
    /\ pathCalls = 2 => pathAgain = pathA
    /\ (/\ pathCalls >= 1
        /\ DashFree(gvkA) /\ DashFree(gvkB)
        /\ DifferBeyondCase(gvkA, gvkB)) => pathA # pathB

\* the paths of two dash-free identities whose groups differ, one of them
\* with a dot, have been computed
C9_Witness ==
    /\ pathCalls = 2
    /\ DashFree(gvkA) /\ DashFree(gvkB)
    /\ gvkA.Group # gvkB.Group
    /\ Contains(gvkA.Group, ".")
    /\ gvkA.Version = gvkB.Version
    /\ gvkA.Kind = gvkB.Kind

\* the literal "/validate-v1-pod"
StrValidateV1Pod ==
    <<"/", "v", "a", "l", "i", "d", "a", "t", "e", "-", "v", "1", "-", "p", "o", "d">>

\* the literal "/validate--v1-pod"
StrValidateDashV1Pod ==
    <<"/", "v", "a", "l", "i", "d", "a", "t", "e", "-", "-", "v", "1", "-", "p", "o", "d">>

\* the literal "/validate-spinnaker-io-v1alpha2-spinnakeraccount"
StrValidateAccount ==
    <<"/", "v", "a", "l", "i", "d", "a", "t", "e", "-">> \o
    <<"s", "p", "i", "n", "n", "a", "k", "e", "r", "-", "i", "o", "-">> \o
    <<"v", "1", "a", "l", "p", "h", "a", "2", "-">> \o
    <<"s", "p", "i", "n", "n", "a", "k", "e", "r", "a", "c", "c", "o", "u", "n", "t">>

SameArguments(d, e) ==
    /\ d.svcName = e.svcName
    /\ d.ns = e.ns
    /\ d.cert = e.cert

StartOrder ==
    <<"check", "identity", "service", "cert", "server">> \o
    [i \in 1..Len(registrations) |-> "register"] \o <<"config">>

\* the errors Start can end with after each step
StepErrors(step) ==
    CASE step = "check" -> {"no kind registered for validation"}
      [] step = "identity" -> {"operator name not found",
                               "unable to determine operator namespace"}
      [] step = "service" -> {"service: create or update failed"}
      [] step = "cert" -> {"certificates: failed"}
      [] step = "register" -> {"panic: can't register duplicate path"}
      [] step = "config" -> {"webhook configuration: create or update failed"}
      [] OTHER -> {}

\* Start has ended with an error
StartFailed == startPc = "done" /\ startResult # "ok"

\* the steps run in the order check, identity, service, certificates, paths,
\* configuration; a failing step ends Start with its error; a step runs only
\* after every earlier step succeeded
StepsInOrder ==
    /\ Len(steps) <= Len(StartOrder)
    /\ steps = SubSeq(StartOrder, 1, Len(steps))
    /\ StartFailed => startResult \in StepErrors(steps[Len(steps)])
    /\ (startPc = "done" /\ startResult = "ok") => steps = StartOrder
    /\ Len(steps) > 2 => (ns # "" /\ name # "")
    /\ Len(steps) > 3 => liveService = webhookService(ns, name, 9876)
    /\ Len(steps) > 4 => certContext # NoObject
    /\ Len(deploys) >= 1 =>
          /\ SubSeq(steps, 1, Len(StartOrder) - 1) =
                 SubSeq(StartOrder, 1, Len(StartOrder) - 1)
          /\ ServedPaths = RegistrationPaths
          /\ hookServer.CertDir = certContext.certDir

\* C12 as claimed: the steps run in order, a failing step ends Start with its
\* error and no later step runs, and a failed startup leaves no partial
\* service behind: no Service published, no path registered on the server.
C12_NoPartialService ==
    /\ StepsInOrder
    /\ StartFailed =>
          /\ liveService = NoObject
          /\ hookServer.webhooks = {}
          /\ \A k \in 1..Len(deploys) : ~deploys[k].ok

\* C12 amended: the steps run in order, a failing step ends Start with its
\* error and no later step runs, so the webhook configuration is created or
\* updated only after all earlier steps succeeded and never by a failed
\* startup; the steps that ran before the failing one are not undone.
C12_OrderedAbort ==
    /\ StepsInOrder
    /\ StartFailed =>
          /\ \A k \in 1..Len(deploys) : ~deploys[k].ok
          /\ liveConfig \in {NoObject, PreviousConfig}

\* Start has failed at the certificates, after publishing the Service
C12_Witness ==
    /\ StartFailed
    /\ steps = <<"check", "identity", "service", "cert">>
    /\ liveService # NoObject
    /\ liveConfig = PreviousConfig

(* ---------------------------------------------------------------------- *)
(* Properties of the identity resolution (checked under Spec)              *)
(* ---------------------------------------------------------------------- *)
\* the identity step of Start has run
IdentityStepDone == Len(steps) >= 2

\* the identity step has run and failed, ending Start with the error err
IdentityFailedWith(err) ==
    /\ startPc = "done"
    /\ steps = <<"check", "identity">>
    /\ startResult = err

\* the identity step has run and resolved the namespace to n
IdentityResolvedTo(n) ==
    /\ ~(startPc = "done" /\ Len(steps) = 2)
    /\ ns = n
    /\ name = operatorName

\* C13 as claimed: the platform namespace is used when there is one, otherwise
\* ADMISSION_PROXY_NAMESPACE when non-empty; the resolution fails when neither
\* is available and succeeds whenever at least one of the two is.
C13_NamespaceAloneDecides ==
    IdentityStepDone =>
        IF platformNs # "" THEN IdentityResolvedTo(platformNs)
        ELSE IF envNs # "" THEN IdentityResolvedTo(envNs)
        ELSE startPc = "done" /\ steps = <<"check", "identity">> /\ startResult # "ok"

\* C13 amended: the resolution fails (and Start with it) when the operator
\* name cannot be resolved, whatever the namespace sources hold; with the name
\* resolved, the platform namespace is used when there is one, otherwise
\* ADMISSION_PROXY_NAMESPACE when non-empty, and the resolution fails when
\* neither is available and succeeds whenever at least one of the two is.
C13_IdentityResolution ==
    IdentityStepDone =>
        IF operatorName = "" THEN IdentityFailedWith("operator name not found")
        ELSE IF platformNs # "" THEN IdentityResolvedTo(platformNs)
        ELSE IF envNs # "" THEN IdentityResolvedTo(envNs)
        ELSE IdentityFailedWith("unable to determine operator namespace")

\* the namespace came from the environment variable although the platform
\* gave none, and Start went on
C13_Witness ==
    /\ Len(steps) >= 3
    /\ operatorName # ""
    /\ platformNs = ""
    /\ envNs # ""
    /\ ns = envNs

(* ---------------------------------------------------------------------- *)
(* Properties of the built webhook configuration (checked under Spec)      *)
(* ---------------------------------------------------------------------- *)
\* the elements of a sequence
Range(seq) == {seq[i] : i \in 1..Len(seq)}

\* entry w is derived from the registration r, for the service svcName in the
\* namespace nsArg and the CA bundle cert
EntryOf(w, r, svcName, nsArg, cert) ==
    /\ w.ClientConfig.Service.Namespace = nsArg
    /\ w.ClientConfig.Service.Name = svcName
    /\ w.ClientConfig.Service.Path = r.p
    /\ w.ClientConfig.CABundle = cert
    /\ Len(w.Rules) = 1
    /\ Range(w.Rules[1].Operations) = {"CREATE", "UPDATE"}
    /\ "DELETE" \notin Range(w.Rules[1].Operations)
    /\ w.Rules[1].Rule.APIGroups = <<r.kind.Group>>
    /\ w.Rules[1].Rule.APIVersions = <<r.kind.Version>>
    /\ w.Rules[1].Rule.Resources = <<r.r>>
    /\ w.SideEffects = "None"
    /\ w.AdmissionReviewVersions = <<"v1beta1", "v1">>

\* C14: every entry of the built webhook configuration is derived from its
\* own registration only: service reference (operator namespace, operator
\* service name, the registration's path), CA bundle the signing certificate of
\* the certificate provider, operations exactly {Create, Update}, rule for the
\* registration's group, version and resource name, side effects None, review
\* versions v1beta1 and v1.
C14_EntriesFromRegistrations ==
    \A k \in 1..Len(deploys) :
        /\ deploys[k].svcName = name
        /\ deploys[k].ns = ns
        /\ deploys[k].cert \in SigningCerts
        /\ k = 1 => deploys[k].cert = certContext.signingCert
        /\ \A i \in 1..Len(deploys[k].desired.Webhooks) :
              /\ i <= Len(registrations)
              /\ EntryOf(deploys[k].desired.Webhooks[i], registrations[i],
                         name, ns, deploys[k].cert)

\* a configuration with the entries of two registrations of different
\* identities has been built and deployed
C14_Witness ==
    /\ Len(deploys) >= 1
    /\ deploys[1].ok
    /\ Len(deploys[1].desired.Webhooks) = 2
    /\ registrations[1].kind # registrations[2].kind
    /\ registrations[1].r # registrations[2].r
    /\ liveConfig = deploys[1].desired

\* C15: each reconciliation builds the configuration from scratch: exactly one
\* entry per current registration, in registration order, entry i carrying the
\* path (and governing the identity) of registration i, and no entry left over
\* from a previous run.
C15_BuiltFromScratch ==
    \A k \in 1..Len(deploys) :
        LET entries == deploys[k].desired.Webhooks IN
        /\ Len(entries) = Len(registrations)
        /\ \A i \in 1..Len(entries) :
              /\ entries[i].ClientConfig.Service.Path = registrations[i].p
              /\ entries[i].Rules[1].Rule.APIGroups[1] = registrations[i].kind.Group
              /\ entries[i].Rules[1].Rule.APIVersions[1] = registrations[i].kind.Version
              /\ entries[i].Rules[1].Rule.Resources[1] = registrations[i].r
        /\ deploys[k].ok => deploys[k].live.Webhooks = entries

\* the configuration has been reconciled twice for two registrations with
\* different paths, neither of them the Pod of the configuration an earlier
\* run had left
C15_Witness ==
    /\ Len(deploys) >= 2
    /\ deploys[1].ok /\ deploys[2].ok
    /\ Len(registrations) = 2
    /\ registrations[1].p # registrations[2].p
    /\ PodGVK \notin {registrations[1].kind, registrations[2].kind}
    /\ Len(liveConfig.Webhooks) = 2

(* ---------------------------------------------------------------------- *)
(* Properties of the entry names (checked under SpecName)                  *)
(* ---------------------------------------------------------------------- *)
\* the entry names of both registrations are built
NamesBuilt == nameCalls >= 1

\* what the entry name is derived from
NameTriple(gvk, res) == <<res, gvk.Version, ToLower(gvk.Group)>>

\* C16 as stated: the entry names of two registrations with distinct
\* identities are distinct.
C16_NamesDistinct ==
    (NamesBuilt /\ gvkA # gvkB) => nameA # nameB

\* C16: the entry name is "webhook-" + resource name + "-" + version + "." +
\* lowercased group; two registrations whose resource names contain no dash
\* and whose versions contain no dot get distinct names exactly when their
\* triples of resource name, version and lowercased group differ (whatever
\* their kinds are).
C16_NamesDistinctOnTriples ==
    NamesBuilt =>
        /\ nameA = StrWebhookDash \o resA \o <<"-">> \o gvkA.Version \o <<".">> \o
                       ToLower(gvkA.Group)
        /\ nameB = StrWebhookDash \o resB \o <<"-">> \o gvkB.Version \o <<".">> \o
                       ToLower(gvkB.Group)
        /\ (/\ ~Contains(resA, "-") /\ ~Contains(resB, "-")
            /\ ~Contains(gvkA.Version, ".") /\ ~Contains(gvkB.Version, "."))
               => (nameA # nameB <=> NameTriple(gvkA, resA) # NameTriple(gvkB, resB))

\* two dash-free resource names that are equal, with versions that differ
\* and contain a dash: the names differ
C16_Witness ==
    /\ NamesBuilt
    /\ resA = resB
    /\ ~Contains(resA, "-")
    /\ gvkA.Group = gvkB.Group
    /\ gvkA.Version # gvkB.Version
    /\ Contains(gvkA.Version, "-")
    /\ nameA # nameB

(* ---------------------------------------------------------------------- *)
(* Properties of concurrent calls of Handle (checked under SpecHandle)     *)
(* ---------------------------------------------------------------------- *)
\* the response Handle gives to the request r when it is the only call
AloneResponse(r) ==
    IF ~OwnedIdentity(r.Kind) THEN AllowResponse
    ELSE IF r.payload.decodeErr # "" THEN Errored(400, r.payload.decodeErr)
    ELSE IF r.payload.typeErr # "" THEN Errored(400, r.payload.typeErr)
    ELSE IF r.payload.crdErr # "" THEN Errored(400, r.payload.crdErr)
    ELSE IF r.payload.validateErr # "" THEN Errored(422, r.payload.validateErr)
    ELSE AllowResponse

\* call j holds a secrets context it has not released
HoldsContext(j) == handlePc[j] \in {"validate", "cleanup"}

\* in every state: a returned response is the one the request gets alone, and
\* the contexts held by the calls are live and differ from call to call
IsolatedState ==
    /\ \A i \in Reqs : Returned(i) => resp[i] = AloneResponse(req[i])
    /\ \A i \in Reqs : HoldsContext(i) => ctx[i] \in liveContexts
    /\ \A i, j \in Reqs :
          (i # j /\ ctx[i] # 0 /\ ctx[j] # 0) => ctx[i] # ctx[j]

\* in every step: the registry and the startup state are not written, a call
\* that does not move keeps its request, response, context and counters, and
\* the context of a call that does not move stays live
IsolatedStep ==
    /\ UNCHANGED <<pvars, svars>>
    /\ \A j \in Reqs :
          handlePc'[j] = handlePc[j] =>
              /\ req'[j] = req[j] /\ resp'[j] = resp[j] /\ ctx'[j] = ctx[j]
              /\ deferred'[j] = deferred[j]
              /\ acquired'[j] = acquired[j] /\ released'[j] = released[j]
              /\ decodeCalls'[j] = decodeCalls[j]
              /\ validateCalls'[j] = validateCalls[j]
              /\ HoldsContext(j) => ctx[j] \in liveContexts'
    /\ \A c \in liveContexts \ liveContexts' :
          \E i \in Reqs : ctx[i] = c /\ handlePc[i] = "cleanup" /\ handlePc'[i] = "done"

\* C17: under any interleaving of concurrent Handle calls each response equals
\* the response the request gets when handled alone, a step of one call
\* writes nothing of another call and nothing of the registry, and a call
\* releases only the secrets context it acquired itself.
C17_CallsIsolated == []IsolatedState /\ [][IsolatedStep]_vars

\* two owned requests in flight together: the first acquired its context
\* after the second did and has returned and released it, while the second
\* still holds its own
C17_Witness ==
    \E i, j \in Reqs :
        /\ i # j
        /\ handlePc[i] = "done" /\ released[i] = 1
        /\ handlePc[j] = "validate"
        /\ ctx[j] # 0 /\ ctx[j] < ctx[i]
        /\ ctx[j] \in liveContexts
        /\ resp[i] = AloneResponse(req[i])

(* ---------------------------------------------------------------------- *)
(* Properties of Register (checked under Spec)                             *)
(* ---------------------------------------------------------------------- *)
\* Register can be called with the identity kind and the resource name res,
\* and the call appends their registration
CanAppend(kind, res) ==
    ENABLED (/\ Register(kind, res, "accountValidatingController")
             /\ registrations' = Append(registrations, registrationOf(kind, res)))

\* in every state: every stored registration has the path of its identity,
\* and before Start every identity can be registered, registered before or not
RegistrationsState ==
    /\ \A k \in 1..Len(registrations) :
          registrations[k].p = generateValidatePath(registrations[k].kind)
    /\ (startPc = "idle" /\ Len(registrations) < MaxRegs) =>
          \A kind \in RegisterKinds, res \in RegisterResources : CanAppend(kind, res)

\* in every step that changes the list: one registration is appended, with
\* the path of its identity, and the earlier ones keep their place
RegistrationsStep ==
    registrations' # registrations =>
        /\ Len(registrations') = Len(registrations) + 1
        /\ SubSeq(registrations', 1, Len(registrations)) = registrations
        /\ LET new == registrations'[Len(registrations')]
           IN /\ new.kind \in RegisterKinds
              /\ new.r \in RegisterResources
              /\ new.p = generateValidatePath(new.kind)

\* C18: Register appends exactly one registration whose path is
\* generateValidatePath of its identity and leaves the earlier registrations
\* unchanged and in place; it checks no uniqueness, so an identity can be
\* registered twice, giving two registrations with the same path; every stored
\* registration r has r.p = generateValidatePath(r.kind).
C18_RegisterAppends == []RegistrationsState /\ [][RegistrationsStep]_vars

\* one identity registered twice, with two resource names: two registrations
\* with the same path
C18_Witness ==
    /\ Len(registrations) = 2
    /\ registrations[1].kind = registrations[2].kind
    /\ registrations[1].r # registrations[2].r
    /\ registrations[1].p = registrations[2].p
    /\ registrations[1].p = generateValidatePath(registrations[1].kind)

(* ---------------------------------------------------------------------- *)
(* Properties of the published objects (checked under Spec)                *)
(* ---------------------------------------------------------------------- *)
\* the namespace and name the operator runs under
OperatorNamespace == IF platformNs # "" THEN platformNs ELSE envNs

\* C19: after a successful Start the published service has the operator's
\* namespace and name, exposes port 443 and targets port 9876; the webhook
\* server listens on port 9876 with the certificate directory of the
\* certificate context; and every entry of the published webhook
\* configuration refers to a service with the namespace and name of the
\* published service.
C19_PublishedObjectsAgree ==
    startResult = "ok" =>
        /\ liveService # NoObject
        /\ liveService.Namespace = OperatorNamespace
        /\ liveService.Name = operatorName
        /\ Len(liveService.Ports) = 1
        /\ liveService.Ports[1].Port = 443
        /\ liveService.Ports[1].TargetPort = 9876
        /\ hookServer.Port = liveService.Ports[1].TargetPort
        /\ hookServer.CertDir = certContext.certDir
        /\ liveConfig # NoObject
        /\ Len(liveConfig.Webhooks) = Len(registrations)
        /\ \A k \in 1..Len(liveConfig.Webhooks) :
              LET svc == liveConfig.Webhooks[k].ClientConfig.Service
              IN /\ svc.Namespace = liveService.Namespace
                 /\ svc.Name = liveService.Name

\* Start succeeded for two registrations with the namespace taken from the
\* environment, and the configuration was published again afterwards
C19_Witness ==
    /\ startResult = "ok"
    /\ platformNs = ""
    /\ liveService # NoObject
    /\ liveService.Namespace = envNs
    /\ liveConfig # NoObject
    /\ Len(liveConfig.Webhooks) = 2
    /\ Len(deploys) >= 2


====
